---- MODULE Spec2Model ----
(***************************************************************************)
(* A model of package deputy (deputy.go): one call of Deputy.Run on one    *)
(* exec.Cmd, together with the goroutines the call spawns (the line        *)
(* drains of pipe, the wait goroutine of run), the goroutines os/exec      *)
(* spawns to copy the child's output into a non-file io.Writer, the timer  *)
(* of time.After, and the child process itself.                            *)
(*                                                                         *)
(* Bytes are one-character strings, texts are sequences of bytes.  An      *)
(* error value is a record [type, msg]: its dynamic type (what a type      *)
(* assertion such as err.(hasTimeout) sees) and the text of Error().       *)
(***************************************************************************)
EXTENDS Integers, Sequences, FiniteSets, TLC

\* ------------------------------------------------------------------ bounds

\* The child writes at most MaxWrites chunks over both streams.
MaxWrites == 2

\* An OS pipe holds at most PipeCap unread chunks; a writer of a full pipe blocks.
PipeCap == 1

\* The number of concurrent calls of Run on one Deputy value.
NumCalls == 2

\* ------------------------------------------------------------------- bytes

NL == "\n"
CR == "\r"
SP == " "

\* unicode.IsSpace on the bytes the model uses (bytes.TrimSpace's cutset).
IsSpace(c) == c \in {SP, NL, CR, "\t"}

\* The chunks a child writes in one write call: a text with a leading blank and no
\* line terminator, and a line ended by CR LF.
Chunks == { <<SP, "b">>, <<"a", CR, NL>> }

Streams == {"stdout", "stderr"}

\* ------------------------------------------------------------- ErrorHandling

DefaultErrs == 0
FromStderr == 1
FromStdout == 2
\* The combined mode of the options-based variant (StdbothErr).
FromBoth == 3

\* ------------------------------------------------------------------ errors

Nil == [type |-> "nil", msg |-> <<>>]

\* cmd.Start's failure (*exec.Error / *os.PathError).
StartErr == [type |-> "startErr", msg |-> <<"fork/exec: no such file or directory">>]

\* cmd.StdoutPipe / cmd.StderrPipe on a stream whose destination is already set.
PipeErr(s) == [type |-> "errorString", msg |-> <<"exec: ", s, " already set">>]

\* *exec.ExitError of a child that exited with a non-zero status.
ExitErr == [type |-> "ExitError", msg |-> <<"exit status 1">>]

\* *exec.ExitError of a child ended by Process.Kill.
KilledErr == [type |-> "ExitError", msg |-> <<"signal: killed">>]

\* The error of a write to the parent's closed end of a pipe (os.ErrClosed).
ClosedErr == [type |-> "PathError", msg |-> <<"write |1: file already closed">>]

\* scanner.Err() of a drain that gave up (bufio.ErrTooLong, an I/O error).
ScanErr == [type |-> "errorString", msg |-> <<"bufio.Scanner: token too long">>]

CmdPath == "/bin/foo"

timeoutErr(path) ==
    [type |-> "timeoutErr",
     msg  |-> <<"timed out waiting for command ", path, " to execute">>]

\* err.(hasTimeout) succeeds and IsTimeout() answers true: only timeoutErr has the method.
IsTimeout(e) == e.type = "timeoutErr"

firstErrBroken(errs) ==
    IF \E i \in 1..Len(errs) : errs[i] # Nil
    THEN LET i == CHOOSE i \in 1..Len(errs) :
                      errs[i] # Nil /\ \A j \in (i+1)..Len(errs) : errs[j] = Nil
         IN errs[i]
    ELSE Nil

firstErr(errs) ==
    IF \E i \in 1..Len(errs) : errs[i] # Nil
    THEN LET i == CHOOSE i \in 1..Len(errs) :
                      errs[i] # Nil /\ \A j \in 1..(i-1) : errs[j] = Nil
         IN errs[i]
    ELSE Nil

\* ------------------------------------------------------------------- texts

RECURSIVE TrimLeft(_)
TrimLeft(t) == IF t # <<>> /\ IsSpace(Head(t)) THEN TrimLeft(Tail(t)) ELSE t

RECURSIVE TrimRight(_)
TrimRight(t) ==
    IF t # <<>> /\ IsSpace(t[Len(t)]) THEN TrimRight(SubSeq(t, 1, Len(t) - 1)) ELSE t

TrimSpaceLeftOnly(t) == TrimLeft(t)

\* bytes.TrimSpace
TrimSpace(t) == TrimRight(TrimLeft(t))

\* dropCR of bufio.ScanLines: one trailing carriage return is dropped.
dropCR(t) == IF t # <<>> /\ t[Len(t)] = CR THEN SubSeq(t, 1, Len(t) - 1) ELSE t

\* One Read of the scanner: `partial` is the unterminated text buffered so far and
\* `data` the bytes read.  The result is <<lines completed, new partial>>.
RECURSIVE ScanChunk(_, _, _)
ScanChunk(partial, data, lines) ==
    IF data = <<>> THEN <<lines, partial>>
    ELSE IF Head(data) = NL
         THEN ScanChunk(<<>>, Tail(data), Append(lines, dropCR(partial)))
         ELSE ScanChunk(Append(partial, Head(data)), Tail(data), lines)

\* At end of stream ScanLines delivers a non-empty unterminated rest as a last line.
ScanEOF(partial) == IF partial = <<>> THEN <<>> ELSE <<dropCR(partial)>>


\* ----------------------------------------------------------------- writers

\* An io.Writer is the sequence of the sinks a Write reaches, in order: <<>> is the
\* nil writer and a sequence of two or more sinks an io.MultiWriter.  The sinks are
\* the caller's own destination of a stream (a non-file writer such as the
\* bytes.Buffer of the tests), the write end of the pipe that StdoutPipe or
\* StderrPipe attached (an *os.File), and the capture buffer errsrc.
NoWriter == <<>>
DestOf(s) == << <<"dest", s>> >>
PipeEnd(s) == << <<"pw", s>> >>
ErrSrc == << <<"errsrc">> >>

\* w.(*os.File) in exec's writerDescriptor: the child gets the descriptor itself.
IsFile(w) == \E s \in Streams : w = PipeEnd(s)

dualWriterDropsFirst(w1, w2) == w2

dualWriterKeepsFirst(w1, w2) == w1

dualWriter(w1, w2) ==
    IF w1 = NoWriter THEN w2
    ELSE IF w2 = NoWriter THEN w1
    ELSE w1 \o w2

\* ------------------------------------------------------------------- state

VARIABLES
    d,          \* the Deputy value Run works on (a copy: Run has a value receiver)
    cmd,        \* the exec.Cmd: its Stdout and Stderr writers
    cmd0,       \* the exec.Cmd as the caller passed it to Run
    startFails, \* whether cmd.Start will fail
    runPc,      \* where the goroutine that called Run is
    runErr,     \* the error d.run handed back to Run
    result,     \* the value Run returned
    seen,       \* the contents of errsrc that Run read for the error text
    how,        \* how run's select resolved: "none", "timer", "done" or "cancel"
    waitBy,     \* who runs d.wait: "none", "run" (inline) or "go" (the goroutine)
    waitPc,     \* where d.wait is
    err1, err2, \* the two receives of d.wait
    err,        \* the variable err shared by run and its goroutine
    doneClosed, \* whether the channel done is closed
    timer,      \* "off", "armed" or "fired"
    cancelClosed, \* whether the Cancel channel is closed
    child,      \* the process: [state, exit, writes]
    reaped,     \* whether Process.Wait has returned
    killed,     \* Process.Kill: "no", "ok" or "failed"
    route,      \* per stream, where the child's descriptor leads
    pipe,       \* per stream, the unread chunks in the OS pipe the child writes
    drain,      \* per stream, the goroutine running pipe(): [pc, partial, err]
    copier,     \* per stream, exec's copying goroutine: [pc, hand, err]
    written,    \* per stream, all the bytes the child wrote
    dest,       \* per stream, the bytes that reached the caller's destination
    errsrc,     \* the capture buffer
    logged,     \* per stream, the lines its callback was called with
    lateLog,    \* whether a callback ran after Run returned
    exitAtFire, \* whether the child had exited when the timer fired
    store,      \* Deputy values in memory: store[0] is the caller's, store[i] call i's copy
    call        \* per concurrent call of Run on store[0]: [pc, drain]

vars == <<d, cmd, cmd0, startFails, runPc, runErr, result, seen, how, waitBy, waitPc,
          err1, err2, err, doneClosed, timer, cancelClosed, child, reaped, killed,
          route, pipe, drain, copier, written, dest, errsrc, logged, lateLog,
          exitAtFire, store, call>>

callVars == <<store, call>>
cfgVars == <<d, cmd, cmd0, startFails, callVars>>
runVars == <<runPc, runErr, result, seen, how>>
waitVars == <<waitBy, waitPc, err1, err2, err, doneClosed>>
outVars == <<written, dest, errsrc, logged, lateLog>>

\* Timeout values: a negative duration, none, and a positive duration.
Timeouts == {-1, 0, 1}

ErrorModes == {DefaultErrs, FromStderr, FromStdout}

IdleDrain == [pc |-> "none", partial |-> <<>>, err |-> Nil]
IdleCopier == [pc |-> "none", hand |-> <<>>, err |-> Nil]

InitWith(modes, cancels) ==
    /\ \E t \in Timeouts, e \in modes, ol \in BOOLEAN, el \in BOOLEAN, c \in cancels :
          d = [Timeout |-> t, Errors |-> e, StdoutLog |-> ol, StderrLog |-> el,
               Cancel |-> c, stdoutPipe |-> FALSE, stderrPipe |-> FALSE]
    /\ \E po \in BOOLEAN, pe \in BOOLEAN :
          cmd = [Stdout |-> IF po THEN DestOf("stdout") ELSE NoWriter,
                 Stderr |-> IF pe THEN DestOf("stderr") ELSE NoWriter]
    /\ cmd0 = cmd
    /\ startFails \in BOOLEAN
    /\ runPc = "makePipes"
    /\ runErr = Nil
    /\ result = Nil
    /\ seen = <<>>
    /\ how = "none"
    /\ waitBy = "none"
    /\ waitPc = "idle"
    /\ err1 = Nil
    /\ err2 = Nil
    /\ err = Nil
    /\ doneClosed = FALSE
    /\ timer = "off"
    /\ cancelClosed = FALSE
    /\ child = [state |-> "none", exit |-> Nil, writes |-> 0]
    /\ reaped = FALSE
    /\ killed = "no"
    /\ route = [s \in Streams |-> "none"]
    /\ pipe = [s \in Streams |-> <<>>]
    /\ drain = [s \in Streams |-> IdleDrain]
    /\ copier = [s \in Streams |-> IdleCopier]
    /\ written = [s \in Streams |-> <<>>]
    /\ dest = [s \in Streams |-> <<>>]
    /\ errsrc = <<>>
    /\ logged = [s \in Streams |-> <<>>]
    /\ lateLog = FALSE
    /\ exitAtFire = FALSE

\* The concurrent calls of Run on one Deputy value.
Calls == 1..NumCalls

\* A nil io.ReadCloser, and the read end StdoutPipe / StderrPipe returns for stream
\* s of the command of call i.
NoPipe == <<>>
PipeHandle(i, s) == <<i, s>>

\* The Deputy value with the callbacks given and no pipe attached.
DeputyValue(ol, el) ==
    [StdoutLog |-> ol, StderrLog |-> el, stdoutPipe |-> NoPipe, stderrPipe |-> NoPipe]

\* A call that has not been made; a drain goroutine that was not started.
IdleCall == [pc |-> "idle", drain |-> [s \in Streams |-> [pc |-> "none", reads |-> NoPipe]]]

\* No call of Run besides the one of d.
CallsIdle ==
    /\ store = [i \in 0..NumCalls |-> DeputyValue(FALSE, FALSE)]
    /\ call = [i \in Calls |-> IdleCall]

\* A call with no Timeout or a positive one.
Init == InitWith(ErrorModes, {FALSE}) /\ d.Timeout >= 0 /\ CallsIdle

\* A call with any Timeout, negative ones included, on a command whose Stdout and
\* Stderr the caller left unset.
InitAnyTimeout ==
    /\ InitWith(ErrorModes, {FALSE})
    /\ cmd.Stdout = NoWriter /\ cmd.Stderr = NoWriter
    /\ CallsIdle


\* --------------------------------------------------------- Run, before Start

\* Deputy.makePipes with cmd.StderrPipe and cmd.StdoutPipe: a pipe is attached for
\* each callback that is set; attaching fails when the stream's writer is already
\* set.  The result is the Deputy, the Cmd and the error after the call.
makePipes(dv, c) ==
    IF dv.StderrLog /\ c.Stderr # NoWriter
    THEN [d |-> dv, cmd |-> c, err |-> PipeErr("Stderr")]
    ELSE LET d1 == IF dv.StderrLog THEN [dv EXCEPT !.stderrPipe = TRUE] ELSE dv
             c1 == IF dv.StderrLog THEN [c EXCEPT !.Stderr = PipeEnd("stderr")] ELSE c
         IN  IF d1.StdoutLog /\ c1.Stdout # NoWriter
             THEN [d |-> d1, cmd |-> c1, err |-> PipeErr("Stdout")]
             ELSE [d   |-> IF d1.StdoutLog THEN [d1 EXCEPT !.stdoutPipe = TRUE] ELSE d1,
                   cmd |-> IF d1.StdoutLog
                           THEN [c1 EXCEPT !.Stdout = PipeEnd("stdout")] ELSE c1,
                   err |-> Nil]

\* Run going on to the tee and to Start whatever makePipes returned.
RunMakePipesIgnoresErr ==
    /\ runPc = "makePipes"
    /\ LET r == makePipes(d, cmd)
       IN  /\ d' = r.d
           /\ cmd' = r.cmd
           /\ result' = result /\ runPc' = "tee"
    /\ UNCHANGED <<cmd0, startFails, callVars, runErr, seen, how, waitVars, timer,
                   cancelClosed, child, reaped, killed, route, pipe, drain, copier,
                   outVars, exitAtFire>>

\* Run, lines 68-70.
RunMakePipes ==
    /\ runPc = "makePipes"
    /\ LET r == makePipes(d, cmd)
       IN  /\ d' = r.d
           /\ cmd' = r.cmd
           /\ IF r.err # Nil
              THEN result' = r.err /\ runPc' = "returned"
              ELSE result' = result /\ runPc' = "tee"
    /\ UNCHANGED <<cmd0, startFails, callVars, runErr, seen, how, waitVars, timer,
                   cancelClosed, child, reaped, killed, route, pipe, drain, copier,
                   outVars, exitAtFire>>

\* The tee put on the stream Errors does not select.
installTeeOtherStream(mode, c) ==
    LET c1 == IF mode = FromStderr
              THEN [c EXCEPT !.Stdout = dualWriter(c.Stdout, ErrSrc)] ELSE c
    IN  IF mode = FromStdout
        THEN [c1 EXCEPT !.Stderr = dualWriter(c1.Stderr, ErrSrc)] ELSE c1

\* Run, lines 72-78: the tee into errsrc on the stream Errors selects.
installTee(mode, c) ==
    LET c1 == IF mode = FromStderr
              THEN [c EXCEPT !.Stderr = dualWriter(c.Stderr, ErrSrc)] ELSE c
    IN  IF mode = FromStdout
        THEN [c1 EXCEPT !.Stdout = dualWriter(c1.Stdout, ErrSrc)] ELSE c1

RunInstallTee ==
    /\ runPc = "tee"
    /\ d.Errors # FromBoth
    /\ cmd' = installTee(d.Errors, cmd)
    /\ runPc' = "start"
    /\ UNCHANGED <<d, cmd0, startFails, callVars, runErr, result, seen, how, waitVars, timer,
                   cancelClosed, child, reaped, killed, route, pipe, drain, copier,
                   outVars, exitAtFire>>

\* ------------------------------------------------------------ Start (os/exec)

\* exec's writerDescriptor: nil leads to the null device, an *os.File is handed to
\* the child as it is, any other writer gets an OS pipe and a copying goroutine.
routeOf(w) == IF w = NoWriter THEN "null" ELSE IF IsFile(w) THEN "file" ELSE "copy"

\* exec's stderr: when cmd.Stderr is the same writer as cmd.Stdout the child's
\* stderr is its stdout descriptor.  Only a lone errsrc can be on both streams.
routes(c) ==
    [s \in Streams |->
        IF s = "stdout" THEN routeOf(c.Stdout)
        ELSE IF c.Stderr = ErrSrc /\ c.Stdout = ErrSrc THEN "shared"
        ELSE routeOf(c.Stderr)]

waitEntryNoDrains(dv) == "proc"

\* d.wait's first statement to run, by the pipes attached.
waitEntry(dv) ==
    IF dv.stdoutPipe THEN "recv1" ELSE IF dv.stderrPipe THEN "recv2" ELSE "proc"

\* run, lines 121-137, with start (lines 147-159): cmd.Start, the drains, then
\* either d.wait inline (race = FALSE) or the goroutine, the select and, when
\* arm holds, the timer of time.After.
StartWith(race, arm) ==
    /\ runPc = "start"
    /\ IF startFails
       THEN /\ runErr' = StartErr
            /\ runPc' = "synth"
            /\ UNCHANGED <<waitVars, timer, child, route, drain, copier>>
       ELSE /\ child' = [child EXCEPT !.state = "running"]
            /\ route' = routes(cmd)
            /\ copier' = [s \in Streams |->
                             IF routes(cmd)[s] = "copy"
                             THEN [IdleCopier EXCEPT !.pc = "copy"] ELSE IdleCopier]
            /\ drain' = [s \in Streams |->
                            IF (s = "stdout" /\ d.stdoutPipe) \/ (s = "stderr" /\ d.stderrPipe)
                            THEN [IdleDrain EXCEPT !.pc = "scan"] ELSE IdleDrain]
            /\ waitPc' = waitEntry(d)
            /\ IF race
               THEN /\ waitBy' = "go"
                    /\ runPc' = "select"
                    /\ timer' = IF arm THEN "armed" ELSE "off"
               ELSE /\ waitBy' = "run"
                    /\ runPc' = "wait"
                    /\ timer' = timer
            /\ UNCHANGED <<runErr, err1, err2, err, doneClosed>>
    /\ UNCHANGED <<cfgVars, result, seen, how, cancelClosed, reaped, killed, pipe,
                   outVars, exitAtFire>>

RaceAlways(t) == TRUE

RacePositive(t) == t > 0

\* run, line 125: d.wait runs inline exactly when Timeout is zero.
RaceWanted(t) == t # 0

RunStart ==
    /\ ~d.Cancel
    /\ StartWith(RaceWanted(d.Timeout), RaceWanted(d.Timeout))

\* ------------------------------------------------------------------ the child

\* Where a write of the child to stream s lands: the pipe of s, or the pipe of
\* stdout when stderr is the same descriptor.
PipeOf(s) == IF route[s] = "shared" THEN "stdout" ELSE s

\* The read end of the pipe of s is closed: exec's copying goroutine closes it when
\* its io.Copy stops on a write error.
ReadEndClosed(s) == copier[s].pc = "done" /\ copier[s].err # Nil

\* The child writes one chunk to one of its streams.  A write to the null device is
\* dropped, a write to a pipe whose read end is closed fails, a write to a full pipe
\* blocks.
ChildWrite(s, c) ==
    /\ child.state = "running"
    /\ child.writes < MaxWrites
    /\ LET p == PipeOf(s)
       IN  IF route[s] = "null"
           THEN /\ written' = [written EXCEPT ![s] = @ \o c]
                /\ pipe' = pipe
           ELSE IF ReadEndClosed(p)
           THEN UNCHANGED <<written, pipe>>
           ELSE /\ Len(pipe[p]) < PipeCap
                /\ written' = [written EXCEPT ![s] = @ \o c]
                /\ pipe' = [pipe EXCEPT ![p] = Append(@, [s |-> s, b |-> c])]
    /\ child' = [child EXCEPT !.writes = @ + 1]
    /\ UNCHANGED <<cfgVars, runVars, waitVars, timer, cancelClosed, reaped, killed,
                   route, drain, copier, dest, errsrc, logged, lateLog, exitAtFire>>

\* The child exits by itself, with status 0 or not.
ChildExit(e) ==
    /\ child.state = "running"
    /\ child' = [child EXCEPT !.state = "exited", !.exit = e]
    /\ UNCHANGED <<cfgVars, runVars, waitVars, timer, cancelClosed, reaped, killed,
                   route, pipe, drain, copier, outVars, exitAtFire>>

\* --------------------------------------------- exec's copying goroutine of s

\* All writers of the pipe of p are gone: the child has ended (the parent closed its
\* own copy of the write end in Start).
AtEOF(p) == pipe[p] = <<>> /\ child.state = "exited"

\* io.Copy's Read: one chunk leaves the pipe; at end of stream the goroutine ends.
CopierRead(s) ==
    /\ copier[s].pc = "copy"
    /\ IF pipe[s] # <<>>
       THEN /\ copier' = [copier EXCEPT ![s].pc = "write", ![s].hand = Head(pipe[s]).b]
            /\ pipe' = [pipe EXCEPT ![s] = Tail(@)]
       ELSE /\ AtEOF(s)
            /\ copier' = [copier EXCEPT ![s].pc = "done"]
            /\ pipe' = pipe
    /\ UNCHANGED <<cfgVars, runVars, waitVars, timer, cancelClosed, child, reaped,
                   killed, route, drain, outVars, exitAtFire>>

WriterOf(s) == IF s = "stdout" THEN cmd.Stdout ELSE cmd.Stderr

\* The sinks of w a Write reaches: io.MultiWriter writes to each in turn and stops
\* at the first that fails, and the parent's write end of an attached pipe is
\* closed once Start has returned.
Reached(w) ==
    { i \in 1..Len(w) : \A j \in 1..i : w[j][1] # "pw" }

WriteFails(w) == \E i \in 1..Len(w) : w[i][1] = "pw"

\* The copying goroutine of s has a chunk in hand for a writer that reaches errsrc.
WritesErrSrc(s) ==
    /\ copier[s].pc = "write"
    /\ \E i \in Reached(WriterOf(s)) : WriterOf(s)[i] = <<"errsrc">>

\* errsrc after the copying goroutine of s has written c to it.  bytes.Buffer is
\* not synchronized: when the other copying goroutine is writing to it as well,
\* the two Writes overlap and either chunk can overwrite the other.
Appended(s, c) ==
    {errsrc \o c} \cup
    (IF \E t \in Streams \ {s} : WritesErrSrc(t) THEN {errsrc} ELSE {})

\* io.Copy's Write of the chunk in hand to the stream's writer.
CopierWrite(s) ==
    /\ copier[s].pc = "write"
    /\ LET w == WriterOf(s)
           c == copier[s].hand
           hits(sink) == \E i \in Reached(w) : w[i] = sink
       IN  /\ dest' = [t \in Streams |-> IF hits(<<"dest", t>>) THEN dest[t] \o c ELSE dest[t]]
           /\ errsrc' \in IF hits(<<"errsrc">>) THEN Appended(s, c) ELSE {errsrc}
           /\ copier' = IF WriteFails(w)
                        THEN [copier EXCEPT ![s] = [pc |-> "done", hand |-> <<>>, err |-> ClosedErr]]
                        ELSE [copier EXCEPT ![s].pc = "copy", ![s].hand = <<>>]
    /\ UNCHANGED <<cfgVars, runVars, waitVars, timer, cancelClosed, child, reaped,
                   killed, route, pipe, drain, written, logged, lateLog, exitAtFire>>


\* ------------------------------------------------------- pipe(): the drain of s

\* What the drain's pipe holds.  The child writes into the attached pipe only when
\* its write end is the child's descriptor; when Run wrapped that write end in a
\* tee, nobody holds the write end after Start and the drain is at end of stream.
DrainInput(s) == IF route[s] = "file" THEN pipe[s] ELSE <<>>
DrainAtEOF(s) == IF route[s] = "file" THEN AtEOF(s) ELSE TRUE

\* pipe, lines 187-191: one Read of the scanner and the callbacks for the lines it
\* completes; at end of stream the last line, and the loop ends.
DrainScan(s) ==
    /\ drain[s].pc = "scan"
    /\ IF DrainInput(s) # <<>>
       THEN LET r == ScanChunk(drain[s].partial, Head(pipe[s]).b, <<>>)
            IN  /\ logged' = [logged EXCEPT ![s] = @ \o r[1]]
                /\ lateLog' = (lateLog \/ (runPc = "returned" /\ r[1] # <<>>))
                /\ drain' = [drain EXCEPT ![s].partial = r[2]]
                /\ pipe' = [pipe EXCEPT ![s] = Tail(@)]
       ELSE /\ DrainAtEOF(s)
            /\ LET last == ScanEOF(drain[s].partial)
               IN  /\ logged' = [logged EXCEPT ![s] = @ \o last]
                   /\ lateLog' = (lateLog \/ (runPc = "returned" /\ last # <<>>))
            /\ drain' = [drain EXCEPT ![s].pc = "send", ![s].partial = <<>>]
            /\ pipe' = pipe
    /\ UNCHANGED <<cfgVars, runVars, waitVars, timer, cancelClosed, child, reaped,
                   killed, route, copier, written, dest, errsrc, exitAtFire>>

\* The scanner gives up on the bytes it reads (a line longer than its buffer, an
\* I/O error): Scan returns false, no line of them is delivered, nothing more is
\* read, and scanner.Err() is the error.
DrainFail(s) ==
    /\ drain[s].pc = "scan"
    /\ DrainInput(s) # <<>>
    /\ drain' = [drain EXCEPT ![s] = [pc |-> "send", partial |-> <<>>, err |-> ScanErr]]
    /\ pipe' = [pipe EXCEPT ![s] = Tail(@)]
    /\ UNCHANGED <<cfgVars, runVars, waitVars, timer, cancelClosed, child, reaped,
                   killed, route, copier, outVars, exitAtFire>>

\* ------------------------------------------------------------------- d.wait

WaitRecvOnce(s) ==
    /\ waitPc \in {"recv1", "recv2"}
    /\ drain[s].pc = "send"
    /\ drain' = [drain EXCEPT ![s].pc = "done"]
    /\ err1' = drain[s].err
    /\ err2' = err2
    /\ waitPc' = "proc"
    /\ UNCHANGED <<cfgVars, runVars, waitBy, err, doneClosed, timer, cancelClosed,
                   child, reaped, killed, route, pipe, copier, outVars, exitAtFire>>

\* wait, lines 167-172, and pipe, line 193: errs is unbuffered, so a drain's send
\* and one of wait's receives happen together.  The first receive takes the report
\* of whichever drain sends first.
WaitRecv(s) ==
    /\ waitPc \in {"recv1", "recv2"}
    /\ drain[s].pc = "send"
    /\ drain' = [drain EXCEPT ![s].pc = "done"]
    /\ IF waitPc = "recv1"
       THEN /\ err1' = drain[s].err
            /\ err2' = err2
            /\ waitPc' = IF d.stderrPipe THEN "recv2" ELSE "proc"
       ELSE /\ err2' = drain[s].err
            /\ err1' = err1
            /\ waitPc' = "proc"
    /\ UNCHANGED <<cfgVars, runVars, waitBy, err, doneClosed, timer, cancelClosed,
                   child, reaped, killed, route, pipe, copier, outVars, exitAtFire>>

\* cmd.Wait, first half: Process.Wait returns once the child has ended.
WaitProc ==
    /\ waitPc = "proc"
    /\ child.state = "exited"
    /\ reaped' = TRUE
    /\ waitPc' = "copy"
    /\ UNCHANGED <<cfgVars, runVars, waitBy, err1, err2, err, doneClosed, timer,
                   cancelClosed, child, killed, route, pipe, drain, copier, outVars,
                   exitAtFire>>

\* The errors of exec's copying goroutines.
CopyErrors == { copier[s].err : s \in Streams } \ {Nil}

\* What cmd.Wait returns: the exit error, else the first copy error received.
CmdWaitResults ==
    IF child.exit # Nil THEN {child.exit}
    ELSE IF CopyErrors = {} THEN {Nil} ELSE CopyErrors

\* cmd.Wait, second half (it waits for the copying goroutines), and wait's line
\* 174.  Inline, the result is run's result (line 126); in the goroutine it is
\* assigned to err (line 133).
WaitFinish ==
    /\ waitPc = "copy"
    /\ \A s \in Streams : copier[s].pc \in {"none", "done"}
    /\ \E e \in CmdWaitResults :
          LET r == firstErr(<<e, err1, err2>>)
          IN  IF waitBy = "run"
              THEN /\ runErr' = r
                   /\ runPc' = "synth"
                   /\ waitPc' = "done"
                   /\ err' = err
              ELSE /\ err' = r
                   /\ waitPc' = "close"
                   /\ UNCHANGED <<runErr, runPc>>
    /\ UNCHANGED <<cfgVars, result, seen, how, waitBy, err1, err2, doneClosed, timer,
                   cancelClosed, child, reaped, killed, route, pipe, drain, copier,
                   outVars, exitAtFire>>

\* run, line 134.
GoCloseDone ==
    /\ waitPc = "close"
    /\ doneClosed' = TRUE
    /\ waitPc' = "done"
    /\ UNCHANGED <<cfgVars, runVars, waitBy, err1, err2, err, timer, cancelClosed,
                   child, reaped, killed, route, pipe, drain, copier, outVars,
                   exitAtFire>>

\* ------------------------------------------------------- the timer, the select

\* The timer of time.After(d.Timeout) fires while run is at its select.
TimerFire ==
    /\ timer = "armed"
    /\ runPc = "select"
    /\ timer' = "fired"
    /\ exitAtFire' = (child.state = "exited")
    /\ UNCHANGED <<cfgVars, runVars, waitVars, cancelClosed, child, reaped, killed,
                   route, pipe, drain, copier, outVars>>

\* cmd.Process.Kill(): it ends a running child, or fails (the child has already
\* ended, or the signal is refused); the error is dropped (line 140).
Kill ==
    \/ /\ child.state = "running"
       /\ child' = [child EXCEPT !.state = "exited", !.exit = KilledErr]
       /\ killed' = "ok"
    \/ /\ child' = child
       /\ killed' = "failed"

RunSelectTimerReturnsKillErr ==
    /\ runPc = "select"
    /\ timer = "fired"
    /\ Kill
    /\ runErr' = IF killed' = "failed"
                 THEN [type |-> "errorString", msg |-> <<"os: process already finished">>]
                 ELSE timeoutErr(CmdPath)
    /\ how' = "timer"
    /\ runPc' = "synth"
    /\ UNCHANGED <<cfgVars, result, seen, waitVars, timer, cancelClosed, reaped,
                   route, pipe, drain, copier, outVars, exitAtFire>>

\* run, lines 138-141: the timer's case of the select.
RunSelectTimer ==
    /\ runPc = "select"
    /\ timer = "fired"
    /\ Kill
    /\ runErr' = timeoutErr(CmdPath)
    /\ how' = "timer"
    /\ runPc' = "synth"
    /\ UNCHANGED <<cfgVars, result, seen, waitVars, timer, cancelClosed, reaped,
                   route, pipe, drain, copier, outVars, exitAtFire>>

\* run reading err without having received from done.
RunSelectDoneUnsynchronised ==
    /\ runPc = "select"
    /\ waitBy = "go"
    /\ runErr' = err
    /\ how' = "done"
    /\ runPc' = "synth"
    /\ UNCHANGED <<cfgVars, result, seen, waitVars, timer, cancelClosed, child,
                   reaped, killed, route, pipe, drain, copier, outVars, exitAtFire>>

RunSelectDoneDropsErr ==
    /\ runPc = "select"
    /\ doneClosed
    /\ runErr' = Nil
    /\ how' = "done"
    /\ runPc' = "synth"
    /\ UNCHANGED <<cfgVars, result, seen, waitVars, timer, cancelClosed, child,
                   reaped, killed, route, pipe, drain, copier, outVars, exitAtFire>>

\* run, lines 142-143: the done case of the select.
RunSelectDone ==
    /\ runPc = "select"
    /\ doneClosed
    /\ runErr' = err
    /\ how' = "done"
    /\ runPc' = "synth"
    /\ UNCHANGED <<cfgVars, result, seen, waitVars, timer, cancelClosed, child,
                   reaped, killed, route, pipe, drain, copier, outVars, exitAtFire>>

\* ------------------------------------------------------------- Run's return

\* fmt.Errorf("%s: %s", e, text): a new error value whose text is built from e's.
Errorf(e, text) == [type |-> "errorString", msg |-> e.msg \o <<":", SP>> \o text]

RunResultNoLenCheck(mode, e, buf) ==
    IF mode = DefaultErrs THEN e
    ELSE IF e # Nil THEN Errorf(e, TrimSpace(buf)) ELSE e

RunResultUntrimmed(mode, e, buf) ==
    IF mode = DefaultErrs THEN e
    ELSE IF e # Nil /\ Len(buf) > 0 THEN Errorf(e, buf) ELSE e

\* Run, lines 82-89.
RunResult(mode, e, buf) ==
    IF mode = DefaultErrs THEN e
    ELSE IF e # Nil /\ Len(buf) > 0 THEN Errorf(e, TrimSpace(buf)) ELSE e

\* What a read of errsrc can see.  bytes.Buffer is not synchronized: a read that
\* runs while a copying goroutine is inside its Write to errsrc sees the buffer with
\* any part of that chunk.
Observable ==
    {errsrc} \cup
    UNION { { errsrc \o SubSeq(copier[s].hand, 1, k) : k \in 1..Len(copier[s].hand) } :
            s \in { t \in Streams : WritesErrSrc(t) } }

RunReturnAfterJoin ==
    /\ runPc = "synth"
    /\ how = "timer" => doneClosed
    /\ \E b \in IF d.Errors = DefaultErrs THEN {seen} ELSE Observable :
          /\ seen' = b
          /\ result' = RunResult(d.Errors, runErr, b)
    /\ runPc' = "returned"
    /\ UNCHANGED <<cfgVars, runErr, how, waitVars, timer, cancelClosed, child,
                   reaped, killed, route, pipe, drain, copier, outVars, exitAtFire>>

\* Run, lines 80-90, after d.run has returned.
RunReturn ==
    /\ runPc = "synth"
    /\ \E b \in IF d.Errors = DefaultErrs THEN {seen} ELSE Observable :
          /\ seen' = b
          /\ result' = RunResult(d.Errors, runErr, b)
    /\ runPc' = "returned"
    /\ UNCHANGED <<cfgVars, runErr, how, waitVars, timer, cancelClosed, child,
                   reaped, killed, route, pipe, drain, copier, outVars, exitAtFire>>

\* ------------------------------------------------------------ specification

\* The steps of everything but Run's tee and start.
Others ==
    \/ RunMakePipes
    \/ \E s \in Streams, c \in Chunks : ChildWrite(s, c)
    \/ \E e \in {Nil, ExitErr} : ChildExit(e)
    \/ \E s \in Streams : CopierRead(s)
    \/ \E s \in Streams : CopierWrite(s)
    \/ \E s \in Streams : DrainScan(s)
    \/ \E s \in Streams : DrainFail(s)
    \/ \E s \in Streams : WaitRecv(s)
    \/ WaitProc
    \/ WaitFinish
    \/ GoCloseDone
    \/ TimerFire
    \/ RunSelectTimer
    \/ RunSelectDone
    \/ RunReturn

Next == RunInstallTee \/ RunStart \/ Others

\* deputy.go as it is: Timeout, the three Errors modes, the two callbacks.
Spec == Init /\ [][Next]_vars

\* deputy.go with any value of Timeout.
SpecAnyTimeout == InitAnyTimeout /\ [][Next]_vars

\* The Go scheduler runs every goroutine that can take a step: the drains, exec's
\* copying goroutines, d.wait (inline or in its goroutine) and Run itself.  Nothing
\* is assumed of the child or of the timer.
Fairness ==
    /\ \A s \in Streams : WF_vars(DrainScan(s) \/ DrainFail(s))
    /\ \A s \in Streams : WF_vars(CopierRead(s)) /\ WF_vars(CopierWrite(s))
    /\ WF_vars(\E s \in Streams : WaitRecv(s))
    /\ WF_vars(WaitProc) /\ WF_vars(WaitFinish) /\ WF_vars(GoCloseDone)
    /\ WF_vars(RunMakePipes) /\ WF_vars(RunInstallTee) /\ WF_vars(RunStart)
    /\ WF_vars(RunSelectTimer \/ RunSelectDone) /\ WF_vars(RunReturn)

\* The calls with a positive Timeout.
InitTimed == Init /\ d.Timeout > 0

\* deputy.go with a positive Timeout, under the scheduler's fairness.
SpecTimedFair == InitTimed /\ [][Next]_vars /\ Fairness

\* ------------------------------------------------ the cancellation signal

\* Deputy.Cancel (README: "Cancel, when closed, will cause the command to
\* close"), as the specification describes it: with a signal configured run always
\* races d.wait, against the signal and, when Timeout is set, the timer.
RunStartCancel ==
    /\ d.Cancel
    /\ StartWith(TRUE, RaceWanted(d.Timeout))

\* The caller closes the signal while run is at its select.
CancelClose ==
    /\ d.Cancel
    /\ ~cancelClosed
    /\ runPc = "select"
    /\ cancelClosed' = TRUE
    /\ UNCHANGED <<cfgVars, runVars, waitVars, timer, child, reaped, killed, route,
                   pipe, drain, copier, outVars, exitAtFire>>

\* The signal's case of the select: the same as the timer's.
RunSelectCancel ==
    /\ runPc = "select"
    /\ cancelClosed
    /\ Kill
    /\ runErr' = timeoutErr(CmdPath)
    /\ how' = "cancel"
    /\ runPc' = "synth"
    /\ UNCHANGED <<cfgVars, result, seen, waitVars, timer, cancelClosed, reaped,
                   route, pipe, drain, copier, outVars, exitAtFire>>

InitCancel == InitWith(ErrorModes, {TRUE}) /\ d.Timeout >= 0 /\ CallsIdle

NextCancel == RunInstallTee \/ RunStartCancel \/ CancelClose \/ RunSelectCancel \/ Others

\* deputy.go with the cancellation signal of the specification.
SpecCancel == InitCancel /\ [][NextCancel]_vars

\* ------------------------------------------- capture of both streams at once

\* The tee of the combined mode, as the specification describes it: the tee of
\* FromStdout and the tee of FromStderr, into the one buffer.
installTeeBoth(c) ==
    [Stdout |-> dualWriter(c.Stdout, ErrSrc), Stderr |-> dualWriter(c.Stderr, ErrSrc)]

RunInstallTeeBoth ==
    /\ runPc = "tee"
    /\ d.Errors = FromBoth
    /\ cmd' = installTeeBoth(cmd)
    /\ runPc' = "start"
    /\ UNCHANGED <<d, cmd0, startFails, callVars, runErr, result, seen, how, waitVars, timer,
                   cancelClosed, child, reaped, killed, route, pipe, drain, copier,
                   outVars, exitAtFire>>

InitBoth == InitWith(ErrorModes \cup {FromBoth}, {FALSE}) /\ d.Timeout >= 0 /\ CallsIdle

NextBoth == RunInstallTee \/ RunInstallTeeBoth \/ RunStart \/ Others

\* deputy.go with the combined capture mode of the specification.
SpecBoth == InitBoth /\ [][NextBoth]_vars

\* ------------------------------------- concurrent calls on one Deputy value

\* Where call i keeps its receiver d: Run has a value receiver (line 67), so each
\* call works on its own copy of the caller's value.
receiverShared(i) == 0

receiver(i) == i

\* The pipe field of a Deputy value for stream s.
pipeField(dv, s) == IF s = "stdout" THEN dv.stdoutPipe ELSE dv.stderrPipe

\* The single call d, not made here.
SingleCallIdle ==
    UNCHANGED <<d, cmd, cmd0, startFails, runVars, waitVars, timer, cancelClosed,
                child, reaped, killed, route, pipe, drain, copier, outVars, exitAtFire>>

\* Run is called on the caller's value: the receiver is copied.
CallRun(i) ==
    /\ SingleCallIdle
    /\ call[i].pc = "idle"
    /\ store' = [store EXCEPT ![receiver(i)] = store[0]]
    /\ call' = [call EXCEPT ![i].pc = "stderrPipe"]

\* makePipes, lines 93-99: d.stderrPipe, through the pointer to the receiver.
CallStderrPipe(i) ==
    /\ SingleCallIdle
    /\ call[i].pc = "stderrPipe"
    /\ store' = IF store[receiver(i)].StderrLog
                THEN [store EXCEPT ![receiver(i)].stderrPipe = PipeHandle(i, "stderr")]
                ELSE store
    /\ call' = [call EXCEPT ![i].pc = "stdoutPipe"]

\* makePipes, lines 100-106: d.stdoutPipe.
CallStdoutPipe(i) ==
    /\ SingleCallIdle
    /\ call[i].pc = "stdoutPipe"
    /\ store' = IF store[receiver(i)].StdoutLog
                THEN [store EXCEPT ![receiver(i)].stdoutPipe = PipeHandle(i, "stdout")]
                ELSE store
    /\ call' = [call EXCEPT ![i].pc = "start"]

\* start, lines 152-157: a drain goroutine for each pipe d holds, reading that
\* pipe and sending on the errs channel of this call.
CallStart(i) ==
    /\ SingleCallIdle
    /\ call[i].pc = "start"
    /\ call' = [call EXCEPT ![i] =
          [pc |-> "recv1",
           drain |-> [s \in Streams |->
              IF pipeField(store[receiver(i)], s) # NoPipe
              THEN [pc |-> "scan", reads |-> pipeField(store[receiver(i)], s)]
              ELSE [pc |-> "none", reads |-> NoPipe]]]]
    /\ UNCHANGED store

\* The receive d.wait is at wants a value: lines 167-172.
Receiving(i) ==
    \/ call[i].pc = "recv1" /\ store[receiver(i)].stdoutPipe # NoPipe
    \/ call[i].pc = "recv2" /\ store[receiver(i)].stderrPipe # NoPipe

\* d.wait's next statement after the one at pc.
AfterRecv(pc) == IF pc = "recv1" THEN "recv2" ELSE "reap"

\* pipe, line 193, with d.wait's receive: a drain of call i sends on errs, the
\* channel run made for call i (line 121), and d.wait of call i receives.
CallDrainSend(i, s) ==
    /\ SingleCallIdle
    /\ call[i].drain[s].pc = "scan"
    /\ Receiving(i)
    /\ call' = [call EXCEPT ![i].drain[s].pc = "done", ![i].pc = AfterRecv(@)]
    /\ UNCHANGED store

\* d.wait, lines 167 and 170: no pipe, no receive.
CallWaitSkip(i) ==
    /\ SingleCallIdle
    /\ call[i].pc \in {"recv1", "recv2"}
    /\ ~Receiving(i)
    /\ pipeField(store[receiver(i)], IF call[i].pc = "recv1" THEN "stdout" ELSE "stderr") = NoPipe
    /\ call' = [call EXCEPT ![i].pc = AfterRecv(@)]
    /\ UNCHANGED store

\* d.wait, lines 173-174, and Run's return.
CallReturn(i) ==
    /\ SingleCallIdle
    /\ call[i].pc = "reap"
    /\ call' = [call EXCEPT ![i].pc = "returned"]
    /\ UNCHANGED store

InitCalls ==
    /\ InitWith({DefaultErrs}, {FALSE})
    /\ d.Timeout = 0 /\ ~d.StdoutLog /\ ~d.StderrLog
    /\ cmd.Stdout = NoWriter /\ cmd.Stderr = NoWriter /\ ~startFails
    /\ \E ol \in BOOLEAN, el \in BOOLEAN :
          store = [i \in 0..NumCalls |->
                      IF i = 0 THEN DeputyValue(ol, el) ELSE DeputyValue(FALSE, FALSE)]
    /\ call = [i \in Calls |-> IdleCall]

NextCalls ==
    \/ \E i \in Calls : CallRun(i)
    \/ \E i \in Calls : CallStderrPipe(i)
    \/ \E i \in Calls : CallStdoutPipe(i)
    \/ \E i \in Calls : CallStart(i)
    \/ \E i \in Calls, s \in Streams : CallDrainSend(i, s)
    \/ \E i \in Calls : CallWaitSkip(i)
    \/ \E i \in Calls : CallReturn(i)

\* Several calls of Run at once on one Deputy value.
SpecCalls == InitCalls /\ [][NextCalls]_vars

\* ------------------------------------------------------------------ claims

Returned == runPc = "returned"

\* cmd.Start succeeded: there is a child.
Started == child.state # "none"

\* C1: whenever Timeout > 0 and the timer's case of the select is taken, the error
\* Run returns is non-nil and has IsTimeout() == true, in every Errors mode and
\* whatever the capture buffer holds.
C1_TimeoutErrorIsTimeout ==
    (Returned /\ d.Timeout > 0 /\ how = "timer") => (result # Nil /\ IsTimeout(result))

\* C2: once the timer's case is taken, Kill has been called (it ended the child
\* unless it failed) and Run's return is enabled in every state: it needs no step
\* of the child, of the wait goroutine or of a drain.
C2_TimeoutReturnNeverWaits ==
    /\ (how = "timer") => (killed # "no" /\ (killed = "ok" => child.state = "exited"))
    /\ (how = "timer" /\ runPc = "synth") => ENABLED RunReturn
    /\ (runPc = "select" /\ timer = "fired") => ENABLED RunSelectTimer

\* Run has returned the timeout while the wait goroutine still waits for a drain,
\* the drain still scans and the child has not been reaped.
C2_Witness ==
    /\ Returned /\ how = "timer" /\ killed = "ok"
    /\ waitPc = "recv1" /\ ~reaped /\ ~doneClosed
    /\ drain["stdout"].pc = "scan"


\* ---- helpers of the claims

IsPrefix(a, b) == Len(a) <= Len(b) /\ SubSeq(b, 1, Len(a)) = a

\* The callback of stream s is set.
HasLog(s) == IF s = "stdout" THEN d.StdoutLog ELSE d.StderrLog

\* The writer the caller had set on stream s.
CallerWriter(s) == IF s = "stdout" THEN cmd0.Stdout ELSE cmd0.Stderr

\* Errors selects stream s for capture.
Selects(mode, s) ==
    \/ mode = FromStdout /\ s = "stdout"
    \/ mode = FromStderr /\ s = "stderr"
    \/ mode = FromBoth

\* Attaching the pipes fails on this input: a callback is set for a stream whose
\* writer the caller has set.
PipeFails == \E s \in Streams : HasLog(s) /\ CallerWriter(s) # NoWriter

\* The bytes of stream s the child has written that are still in its OS pipe.
RECURSIVE BytesOf(_, _)
BytesOf(q, s) ==
    IF q = <<>> THEN <<>>
    ELSE (IF Head(q).s = s THEN Head(q).b ELSE <<>>) \o BytesOf(Tail(q), s)

Pending(s) == IF route[s] \in {"copy", "file", "shared"} THEN BytesOf(pipe[PipeOf(s)], s) ELSE <<>>

\* t is b without its leading and trailing white space.
IsTrimOf(t, b) ==
    \E i \in 0..Len(b), j \in 0..Len(b) :
        /\ i + j <= Len(b)
        /\ t = SubSeq(b, i + 1, Len(b) - j)
        /\ \A k \in 1..i : IsSpace(b[k])
        /\ \A k \in (Len(b) - j + 1)..Len(b) : IsSpace(b[k])
        /\ t # <<>> => (~IsSpace(t[1]) /\ ~IsSpace(t[Len(t)]))

\* The lines of a text: the pieces between newlines, without the newline and
\* without a carriage return before it; a text that ends in a newline has no empty
\* last line.
LineStarts(t) == { p \in 1..Len(t) : p = 1 \/ t[p - 1] = NL }
LineEnd(t, p) ==
    IF \E i \in p..Len(t) : t[i] = NL
    THEN (CHOOSE i \in p..Len(t) : t[i] = NL /\ \A j \in p..(i - 1) : t[j] # NL) - 1
    ELSE Len(t)
LineAt(t, p) ==
    LET l == SubSeq(t, p, LineEnd(t, p))
    IN  IF l # <<>> /\ l[Len(l)] = CR THEN SubSeq(l, 1, Len(l) - 1) ELSE l
RECURSIVE LinesFrom(_, _)
LinesFrom(t, ps) ==
    IF ps = {} THEN <<>>
    ELSE LET p == CHOOSE x \in ps : \A y \in ps : x <= y
         IN  <<LineAt(t, p)>> \o LinesFrom(t, ps \ {p})
Lines(t) == LinesFrom(t, LineStarts(t))

\* The child ended by itself, and before the timer fired if the timer fired.
RanShorterThanTimeout ==
    child.state = "exited" /\ killed # "ok" /\ (timer = "fired" => exitAtFire)

\* The errors the drains reported, and the errors besides the exit error that
\* d.wait can return.
DrainErrors == { drain[s].err : s \in Streams } \ {Nil}
OtherErrors == DrainErrors \cup CopyErrors

\* C3, as claimed: a child that runs for less than Timeout gets its exit result
\* from Run (nil on exit 0, the exit error otherwise), never a timeout.
C3_ShortRunNeverTimesOut ==
    (Returned /\ Started /\ d.Timeout > 0 /\ RanShorterThanTimeout /\ OtherErrors = {})
        => /\ how # "timer" /\ ~IsTimeout(result)
           /\ child.exit = Nil => result = Nil
           /\ child.exit # Nil => IsPrefix(child.exit.msg, result.msg)

\* C3, amended: with Timeout > 0, Run takes the done case whenever the timer has
\* not fired by the time of its select, and when it takes the done case the
\* child has been reaped, was not killed, and Run returns what d.wait returned,
\* never a timeout: the exit error (or the text built on it) when the child failed,
\* nil when it exited 0 and no drain or copy failed, else one of those failures.
C3_DoneCaseReturnsWaitResult ==
    /\ (Returned /\ Started /\ d.Timeout > 0 /\ timer # "fired") => how = "done"
    /\ (Returned /\ how = "done") =>
          /\ ~IsTimeout(result) /\ reaped /\ killed = "no"
          /\ child.exit # Nil => IsPrefix(child.exit.msg, result.msg)
          /\ (child.exit = Nil /\ OtherErrors = {}) => result = Nil
          /\ (child.exit = Nil /\ OtherErrors # {}) =>
                \E e \in OtherErrors : IsPrefix(e.msg, result.msg)

\* Timeout > 0 and both callbacks set: the child wrote to both streams and exited
\* 0, the drains reported, the done case was taken and Run returned nil.
C3_Witness ==
    /\ Returned /\ how = "done" /\ d.Timeout > 0 /\ d.StdoutLog /\ d.StderrLog
    /\ result = Nil /\ child.exit = Nil
    /\ logged["stdout"] # <<>> /\ logged["stderr"] # <<>>

\* C4, as claimed: with Timeout == 0 the child is never killed and no timeout is
\* returned, and with DefaultErrs Run returns after the reap, with the exit error.
C4_ZeroTimeoutReturnsExitError ==
    (Returned /\ Started /\ d.Timeout = 0) =>
        /\ killed = "no" /\ how = "none" /\ ~IsTimeout(result)
        /\ d.Errors = DefaultErrs => (reaped /\ result = child.exit)

\* C4, amended: with Timeout == 0 the child is never killed and no timeout is
\* returned; with DefaultErrs Run returns after the reap, and returns the exit error
\* unmodified when that error is non-nil or no drain reported an error; when the
\* child exited 0 and a drain reported an error, Run returns a drain's error.
C4_ZeroTimeoutNeverKills ==
    /\ d.Timeout = 0 => (killed = "no" /\ how = "none" /\ timer = "off")
    /\ (Returned /\ Started /\ d.Timeout = 0) =>
          /\ ~IsTimeout(result)
          /\ d.Errors = DefaultErrs =>
                /\ reaped
                /\ (child.exit # Nil \/ DrainErrors = {}) => result = child.exit
                /\ (child.exit = Nil /\ DrainErrors # {}) => result \in DrainErrors

\* Timeout == 0 and DefaultErrs: the child wrote all it can, failed, was reaped and
\* Run returned its exit error.
C4_Witness ==
    /\ Returned /\ d.Timeout = 0 /\ d.Errors = DefaultErrs
    /\ child.writes = MaxWrites /\ reaped /\ result = ExitErr

\* C5: Run's result is decided by the error of d.run, the capture buffer as Run
\* read it, and Errors: with FromStdout or FromStderr, a non-nil error e and a
\* non-empty buffer it is an error whose text is e's text, ": ", and the buffer
\* without leading and trailing white space; in every other case it is d.run's
\* error itself, so nil stays nil whatever was captured.
C5_ErrorSynthesis ==
    (Returned /\ ~PipeFails) =>
        IF d.Errors \in {FromStdout, FromStderr} /\ runErr # Nil /\ seen # <<>>
        THEN \E t \in { SubSeq(seen, i, j) : i \in 1..(Len(seen) + 1), j \in 0..Len(seen) } :
                /\ IsTrimOf(t, seen)
                /\ result.msg = runErr.msg \o <<":", SP>> \o t
                /\ result # runErr
        ELSE result = runErr

\* FromStdout: the child wrote " b" then "a\r\n" to stdout and failed; Run returned
\* "exit status 1: ba".
C5_Witness ==
    /\ Returned /\ d.Errors = FromStdout /\ runErr = ExitErr
    /\ seen = <<SP, "b", "a", CR, NL>>
    /\ result.msg = <<"exit status 1", ":", SP, "b", "a">>

\* A run that succeeded with output in the capture buffer returned nil.
C5_WitnessNil ==
    Returned /\ d.Errors = FromStderr /\ runErr = Nil /\ seen # <<>> /\ result = Nil


\* C6: with Errors = FromStdout (FromStderr) and a writer the caller set on
\* cmd.Stdout (cmd.Stderr), the tee keeps the caller's writer and adds errsrc; the
\* caller's writer and errsrc receive the same bytes, which are the bytes the child
\* wrote to the stream, in order and untrimmed, up to those still in the pipe or in
\* the copying goroutine's hand; when Run returns by the wait they are all there.
C6_TeeKeepsCallerWriter ==
    \A s \in Streams :
        ( /\ d.Errors \in {FromStdout, FromStderr} /\ Selects(d.Errors, s)
          /\ CallerWriter(s) # NoWriter /\ ~PipeFails
          /\ runPc \notin {"makePipes", "tee"} ) =>
            /\ \E i \in 1..Len(WriterOf(s)) : WriterOf(s)[i] = <<"dest", s>>
            /\ \E i \in 1..Len(WriterOf(s)) : WriterOf(s)[i] = <<"errsrc">>
            /\ written[s] = dest[s] \o copier[s].hand \o Pending(s)
            /\ errsrc = dest[s]
            /\ (Returned /\ Started /\ how # "timer") => dest[s] = written[s]

\* FromStdout with a writer on cmd.Stdout: the child wrote "a\r\n" to stdout and
\* failed; the caller's writer holds "a\r\n", Run's error ends in "a".
C6_Witness ==
    /\ Returned /\ d.Errors = FromStdout /\ cmd0.Stdout # NoWriter
    /\ written["stdout"] = <<"a", CR, NL>>
    /\ dest["stdout"] = <<"a", CR, NL>>
    /\ result.msg = <<"exit status 1", ":", SP, "a">>

\* C7, as claimed, where Run returns by the wait and no read of a drain failed:
\* no callback runs after Run has returned, and when Run returns each callback has
\* received, in order and once each, exactly the lines the child wrote to its
\* stream.
C7_AllLinesBeforeReturn ==
    (Returned /\ Started /\ how # "timer" /\ DrainErrors = {}) =>
        /\ ~lateLog
        /\ \A s \in Streams : HasLog(s) => logged[s] = Lines(written[s])

\* C8: if cmd.Start fails, no child, drain, copying goroutine, wait or timer is
\* ever started, no callback runs, nothing is killed, and Run returns the start
\* error itself in every Errors mode and with every Timeout.
C8_StartFailureReturnedUnmodified ==
    (startFails /\ ~PipeFails) =>
        /\ ~Started /\ waitBy = "none" /\ waitPc = "idle" /\ timer = "off"
        /\ how = "none" /\ killed = "no" /\ ~doneClosed
        /\ \A s \in Streams :
              drain[s].pc = "none" /\ copier[s].pc = "none" /\ logged[s] = <<>>
        /\ Returned => result = StartErr

\* Start failed with FromStdout, a Timeout and the stdout callback set, and Run has
\* returned the start error.
C8_Witness ==
    /\ Returned /\ startFails /\ result = StartErr
    /\ d.Errors = FromStdout /\ d.Timeout > 0 /\ d.StdoutLog


\* C9, as claimed: when the cancellation signal is closed and its case of the
\* select is taken, the child is killed and Run returns a non-nil error with
\* IsTimeout() == true, whatever Timeout is.
C9_CancelIsTimeout ==
    (Returned /\ how = "cancel") =>
        (killed # "no" /\ result # Nil /\ IsTimeout(result))

\* a occurs in b as a run of consecutive elements.
Contains(b, a) ==
    \E i \in 0..(Len(b) - Len(a)) : SubSeq(b, i + 1, i + Len(a)) = a

\* m is a merge of a and b: all of a and all of b, each in its own order.
RECURSIVE IsMerge(_, _, _)
IsMerge(m, a, b) ==
    IF m = <<>> THEN a = <<>> /\ b = <<>>
    ELSE \/ a # <<>> /\ Head(a) = Head(m) /\ IsMerge(Tail(m), Tail(a), b)
         \/ b # <<>> /\ Head(b) = Head(m) /\ IsMerge(Tail(m), a, Tail(b))

\* Neither stream has a writer of the caller's or a callback: in the combined mode
\* both streams of the child are then one descriptor with one copying goroutine.
NothingAttached ==
    \A s \in Streams : CallerWriter(s) = NoWriter /\ ~HasLog(s)

C11_CallsShareNothing ==
    /\ store[0].stdoutPipe = NoPipe /\ store[0].stderrPipe = NoPipe
    /\ \A i \in Calls, s \in Streams :
          /\ call[i].drain[s].pc # "none" => call[i].drain[s].reads = PipeHandle(i, s)
          /\ call[i].pc \in {"recv1", "recv2", "reap", "returned"} =>
                (call[i].drain[s].pc # "none" <=>
                    (IF s = "stdout" THEN store[0].StdoutLog ELSE store[0].StderrLog))
          /\ call[i].pc \in {"reap", "returned"} => call[i].drain[s].pc # "scan"

\* Two calls at once with both callbacks set: the second has entered d.wait while
\* the first has returned, each with drains on its own command's pipes.
C11_Witness ==
    /\ call[1].pc = "returned" /\ call[2].pc = "recv1"
    /\ call[1].drain["stdout"].reads = PipeHandle(1, "stdout")
    /\ call[2].drain["stdout"].pc = "scan"
    /\ call[2].drain["stderr"].reads = PipeHandle(2, "stderr")


\* The goroutines of the call that have not ended: drains, exec's copying
\* goroutines, and d.wait where run started it in a goroutine.
TasksRunning ==
    { <<"drain", s>> : s \in { x \in Streams : drain[x].pc \notin {"none", "done"} } }
        \cup { <<"copy", s>> : s \in { x \in Streams : copier[x].pc \notin {"none", "done"} } }
        \cup (IF waitBy = "go" /\ waitPc # "done" THEN { <<"wait">> } ELSE {})

\* C12: Run returns once (after the return no step of Run is left and the result
\* stays), and at a return that is not a timeout return no drain, no copying
\* goroutine and no wait goroutine of the call is running; goroutines still run
\* after a return only when it is the timeout return, and they are the wait
\* goroutine run detached with the drains and copies it joins.
C12_OneResultNoTaskLeft ==
    /\ Returned =>
          /\ ~ENABLED RunReturn /\ ~ENABLED RunSelectDone /\ ~ENABLED RunSelectTimer
          /\ ~ENABLED RunStart /\ ~ENABLED RunMakePipes /\ ~ENABLED RunInstallTee
    /\ (Returned /\ how # "timer") => TasksRunning = {}
    /\ (Returned /\ TasksRunning # {}) =>
          (how = "timer" /\ waitBy = "go" /\ <<"wait">> \in TasksRunning)

\* Timeout > 0 and both callbacks: the done case was taken, Run returned, both
\* drains delivered lines and ended, and the wait goroutine has ended.
C12_Witness ==
    /\ Returned /\ how = "done" /\ waitBy = "go" /\ TasksRunning = {}
    /\ drain["stdout"].pc = "done" /\ drain["stderr"].pc = "done"
    /\ logged["stdout"] # <<>> /\ logged["stderr"] # <<>>

\* The timeout return with the detached wait goroutine and a drain still running.
C12_WitnessDetached ==
    /\ Returned /\ how = "timer"
    /\ {<<"wait">>, <<"drain", "stdout">>} \subseteq TasksRunning

\* C13: cmd.Wait is entered, and the child reaped, only when every drain that was
\* started has sent its report and d.wait has received it.
C13_ReapAfterDrains ==
    (waitPc \in {"proc", "copy", "close", "done"} \/ reaped) =>
        \A s \in Streams :
            /\ drain[s].pc \in {"none", "done"}
            /\ (IF s = "stdout" THEN d.stdoutPipe ELSE d.stderrPipe) => drain[s].pc = "done"

\* Both callbacks: both drains have reported, the second with lines delivered,
\* and the child has been reaped.
C13_Witness ==
    /\ reaped /\ d.stdoutPipe /\ d.stderrPipe
    /\ drain["stdout"].pc = "done" /\ drain["stderr"].pc = "done"
    /\ logged["stderr"] # <<>>


\* Stream s has a copying goroutine whose writer reaches errsrc.
CaptureCopier(s) ==
    /\ copier[s].pc # "none"
    /\ \E i \in Reached(WriterOf(s)) : WriterOf(s)[i] = <<"errsrc">>

\* Run is about to read errsrc for the error text: lines 86-87 with err non-nil.
ConsultsBuffer == runPc = "synth" /\ d.Errors # DefaultErrs /\ runErr # Nil

\* C14: whenever Run reads the capture buffer for the error text, after a timeout
\* as well, every goroutine that writes the child's output into the buffer has
\* ended, so the buffer holds all the captured stream's output and no write to it
\* is in progress.
C14_BufferCompleteWhenRead ==
    ConsultsBuffer => \A s \in Streams : CaptureCopier(s) => copier[s].pc = "done"


\* d.wait has returned, and what it returned.
WaitReturned == waitPc \in {"close", "done"}
WaitResult == IF waitBy = "run" THEN runErr ELSE err

\* C15: d.wait returns the first non-nil of cmd.Wait's error, the first drain
\* report received and the second: the exit error whenever the child failed,
\* whatever the drains reported; a drain's error only when the child exited 0 (the
\* first received before the second); nil only when the exit error and both reports
\* are nil.
C15_FirstNonNilPrecedence ==
    WaitReturned =>
        /\ child.exit # Nil => WaitResult = child.exit
        /\ (child.exit = Nil /\ CopyErrors = {}) =>
              WaitResult = (IF err1 # Nil THEN err1 ELSE err2)
        /\ (child.exit = Nil /\ CopyErrors # {}) => WaitResult \in CopyErrors
        /\ WaitResult \in DrainErrors => child.exit = Nil
        /\ WaitResult = Nil => (child.exit = Nil /\ err1 = Nil /\ err2 = Nil)

\* The child failed and a drain reported a scanner error: d.wait returned the exit
\* error.
C15_Witness ==
    /\ WaitReturned /\ child.exit = ExitErr /\ err1 = ScanErr
    /\ WaitResult = ExitErr

\* The child exited 0, the first report was nil and the second a scanner error:
\* d.wait returned the second report.
C15_WitnessDrain ==
    /\ WaitReturned /\ child.exit = Nil /\ err1 = Nil /\ err2 = ScanErr
    /\ WaitResult = ScanErr


\* C16: when the timer's case is taken, run returns the timeout error whether Kill
\* ended the child or failed, and Run's result is built from that error alone (the
\* timeout error itself, or its text before the captured output): Kill's error is
\* never in it, and the timer's case and the return after it are enabled whatever
\* Kill does.
C16_KillFailureSwallowed ==
    /\ (runPc = "select" /\ timer = "fired") => ENABLED RunSelectTimer
    /\ how = "timer" =>
          /\ killed \in {"ok", "failed"}
          /\ runErr = timeoutErr(CmdPath)
          /\ runPc = "synth" => ENABLED RunReturn
          /\ Returned => result = RunResult(d.Errors, timeoutErr(CmdPath), seen)
          /\ Returned => IsPrefix(timeoutErr(CmdPath).msg, result.msg)

\* Kill failed on a child that is still running, and Run has returned the timeout
\* error.
C16_Witness ==
    /\ Returned /\ how = "timer" /\ killed = "failed" /\ child.state = "running"
    /\ result = timeoutErr(CmdPath)


\* C17, as claimed: with Timeout <= 0 run calls d.wait directly: no goroutine, no
\* timer, no Kill and no timeout error.
C17_NoRaceUnlessPositive ==
    d.Timeout <= 0 =>
        /\ waitBy # "go" /\ timer = "off" /\ killed = "no" /\ how # "timer"
        /\ Returned => ~IsTimeout(result)

\* C17, amended: the race is entered exactly when Timeout is not zero.  With
\* Timeout == 0 run calls d.wait directly: no goroutine, no timer, no Kill, no
\* timeout error.  With any other Timeout, negative ones included, a started
\* child's d.wait runs in a goroutine against the timer, and when the timer's case
\* is taken Kill is called and run returns the timeout error.
C17_RaceUnlessZero ==
    /\ d.Timeout = 0 =>
          /\ waitBy # "go" /\ timer = "off" /\ killed = "no" /\ how = "none"
          /\ Returned => ~IsTimeout(result)
    /\ (d.Timeout # 0 /\ Started /\ runPc # "start") =>
          /\ waitBy = "go" /\ timer # "off"
          /\ how = "timer" => (killed # "no" /\ runErr = timeoutErr(CmdPath))

\* A negative Timeout: the timer's case was taken, the child killed, and Run
\* returned the timeout error.
C17_Witness ==
    /\ Returned /\ d.Timeout < 0 /\ how = "timer" /\ killed = "ok"
    /\ IsTimeout(result)


\* Run has attached the drain's pipe to stream s; Run has put the tee into errsrc
\* on stream s.
PipeAttached(s) == IF s = "stdout" THEN d.stdoutPipe ELSE d.stderrPipe
TeeInstalled(s) == \E i \in 1..Len(WriterOf(s)) : WriterOf(s)[i] = <<"errsrc">>

\* C18: once Run has wired the command, no stream has both the tee into the capture
\* buffer and the pipe of a drain, whatever Errors and the callbacks are.
C18_OneStrategyPerStream ==
    runPc \notin {"makePipes", "tee"} =>
        \A s \in Streams : ~(PipeAttached(s) /\ TeeInstalled(s))


\* C19: d.wait receives once per drain started, so after the timeout return, once
\* the child has ended, each detached drain reaches end of stream and completes its
\* send, the copying goroutines end, and the detached wait goroutine receives,
\* reaps, closes done and ends: no goroutine of the call stays blocked.
C19_DetachedTasksEnd ==
    (how = "timer" /\ child.state = "exited") ~> (TasksRunning = {} /\ doneClosed)

\* After the timeout return with both callbacks set, the detached wait goroutine
\* has received from both drains, reaped the killed child and ended.
C19_Witness ==
    /\ Returned /\ how = "timer" /\ killed = "ok" /\ d.stdoutPipe /\ d.stderrPipe
    /\ drain["stdout"].pc = "done" /\ drain["stderr"].pc = "done"
    /\ TasksRunning = {} /\ doneClosed /\ reaped


\* A write of the child to stream s cannot proceed: the child writes to the pipe of
\* the drain of s, and that pipe is full.
WriteBlocks(s) ==
    /\ route[s] = "file"
    /\ Len(pipe[s]) >= PipeCap

\* The drain of s has stopped reading before end of stream: its scanner failed, and
\* the read end stays open until cmd.Wait closes it.
DrainGaveUp(s) == drain[s].pc \in {"send", "done"} /\ drain[s].err # Nil

\* C20: with Timeout == 0 and a callback configured, a drain that has stopped
\* reading never leaves the child blocked on a full pipe while d.wait is blocked on
\* the reap (so Run returns once the child is allowed to exit).
C20_StoppedDrainNeverBlocksChild ==
    \A s \in Streams :
        ~ /\ d.Timeout = 0
          /\ waitBy = "run" /\ waitPc = "proc"
          /\ child.state = "running"
          /\ DrainGaveUp(s)
          /\ WriteBlocks(s)


\* What makePipes returns for this call: it looks only at the callbacks and at the
\* writers the caller set on the command.
MakePipesErr == makePipes(d, cmd0).err

\* C21: if attaching a pipe for a configured callback fails, Run returns that error,
\* the child is never started, no drain is spawned and no callback is invoked.
C21_PipeFailureStartsNothing ==
    MakePipesErr # Nil =>
        /\ runPc \in {"makePipes", "returned"}
        /\ Returned => result = MakePipesErr
        /\ child.state = "none" /\ ~reaped /\ killed = "no"
        /\ waitBy = "none" /\ timer = "off"
        /\ \A s \in Streams :
              drain[s] = IdleDrain /\ copier[s] = IdleCopier /\ logged[s] = <<>>

\* Both callbacks set and only cmd.Stdout set by the caller: the pipe of stderr was
\* attached, StdoutPipe failed, and Run returned its error.
C21_Witness ==
    /\ Returned /\ result = PipeErr("Stdout")
    /\ d.StderrLog /\ d.StdoutLog /\ d.stderrPipe /\ ~d.stdoutPipe
    /\ child.state = "none"


\* C22: Run changes only the destinations its configuration selects.  A stream that
\* Errors does not select and that has no callback keeps the writer the caller set,
\* through the whole call: with DefaultErrs and no callbacks both cmd.Stdout and
\* cmd.Stderr, with FromStderr cmd.Stdout, with FromStdout cmd.Stderr.
C22_UnselectedWriterUnchanged ==
    /\ (d.Errors = DefaultErrs /\ ~d.StdoutLog /\ ~d.StderrLog) => cmd = cmd0
    /\ (d.Errors = FromStderr /\ ~d.StdoutLog) => cmd.Stdout = cmd0.Stdout
    /\ (d.Errors = FromStdout /\ ~d.StderrLog) => cmd.Stderr = cmd0.Stderr
    /\ \A s \in Streams :
          (~Selects(d.Errors, s) /\ ~HasLog(s)) => WriterOf(s) = CallerWriter(s)

\* Run returned after a started child with Errors == FromStderr and no stdout
\* callback: cmd.Stderr now carries the tee and cmd.Stdout is the caller's writer.
C22_Witness ==
    /\ Returned /\ Started /\ d.Errors = FromStderr /\ ~d.StdoutLog
    /\ cmd0.Stdout # NoWriter /\ cmd.Stdout = cmd0.Stdout
    /\ cmd.Stderr # cmd0.Stderr


\* The wait goroutine has made its one write of err (line 133): the write is the
\* step that takes it from cmd.Wait to close(done).
ErrWritten == waitBy = "go" /\ waitPc \in {"close", "done"}

\* run has read err: only the done case of the select reads it (line 143).
ErrRead == how = "done"

\* C23: err is never read and written concurrently.  The goroutine writes it once,
\* before it closes done, and nothing writes it after; run reads it only after done
\* was closed, and gets the value written; on the timeout path run does not read it
\* and returns the timeout error whatever err holds.
C23_ErrReadAfterClose ==
    /\ doneClosed => (ErrWritten /\ waitPc = "done")
    /\ ErrRead => (doneClosed /\ (runPc = "synth" => runErr = err))
    /\ ~ErrWritten => err = Nil
    /\ (how = "timer" /\ runPc = "synth") => runErr = timeoutErr(CmdPath)

\* Both cases: run read a non-nil err after done was closed; run returned by the
\* timer while the goroutine had not yet written err.
C23_Witness ==
    /\ ErrRead /\ runPc = "synth" /\ doneClosed /\ err # Nil /\ runErr = err

C23_WitnessTimer ==
    /\ Returned /\ how = "timer" /\ waitBy = "go" /\ ~ErrWritten

====
